---- MODULE Spec2Model ----
(***************************************************************************)
(* The encrypted profile store of web/scripts/student-form-storage.js.    *)
(*                                                                         *)
(* JavaScript strings are sequences of character codes, byte arrays are    *)
(* sequences of numbers in 0..255, and localStorage is a function from the *)
(* keys that are present to their string values.  An operation that can    *)
(* throw returns a result record: Ok(v) or Thrown.                         *)
(***************************************************************************)
EXTENDS Integers, Sequences, FiniteSets, TLC

(* ------------------------------------------------------------------ *)
(* Bounds of the model                                                 *)
(* ------------------------------------------------------------------ *)

\* the submits of a run, one per second: savedAt is second 0..MaxClock-1
MaxClock == 2

(* ------------------------------------------------------------------ *)
(* Results of operations that may throw                                *)
(* ------------------------------------------------------------------ *)

Ok(v) == [ok |-> TRUE, val |-> v]
Thrown == [ok |-> FALSE, val |-> <<>>]

\* JavaScript null, where a string or an object is expected
Null == <<-1>>

SeqMin(S) == CHOOSE x \in S : \A y \in S : x <= y
SeqMax(S) == CHOOSE x \in S : \A y \in S : y <= x

(* ------------------------------------------------------------------ *)
(* Program constants (student-form-storage.js:19-21, theme-switcher:18) *)
(* ------------------------------------------------------------------ *)

\* 'studentFormData_'
STORAGE_KEY_PREFIX == <<115,116,117,100,101,110,116,70,111,114,109,68,97,116,97,95>>
\* 'currentProfile'
CURRENT_PROFILE_KEY == <<99,117,114,114,101,110,116,80,114,111,102,105,108,101>>
\* 'themePreference'
THEME_STORAGE_KEY == <<116,104,101,109,101,80,114,101,102,101,114,101,110,99,101>>
\* 'witchcraft-and-wizardry-school-secure-key-2025'
ENCRYPTION_KEY == <<119,105,116,99,104,99,114,97,102,116,45,97,110,100,45,119,105,122,97,114,100,114,121,45,115,99,104,111,111,108,45,115,101,99,117,114,101,45,107,101,121,45,50,48,50,53>>
\* 'witchcraft-salt'
KEY_SALT == <<119,105,116,99,104,99,114,97,102,116,45,115,97,108,116>>
\* PBKDF2 iterations
KEY_ITERATIONS == 100000
\* the bytes of the nonce: new Uint8Array(12), slice(0, 12), slice(12)
IV_LENGTH == 12
\* AES-GCM's tag, 128 bits when tagLength is not given
TAG_LENGTH == 16

\* 'mentor', 'Student'
MENTOR_ID == <<109,101,110,116,111,114>>
DEFAULT_NAME == <<83,116,117,100,101,110,116>>

\* the property names of the saved object
K_name == <<110,97,109,101>>
K_avatarChoice == <<97,118,97,116,97,114,67,104,111,105,99,101>>
K_genderChoice == <<103,101,110,100,101,114,67,104,111,105,99,101>>
K_ageChoice == <<97,103,101,67,104,111,105,99,101>>
K_themeChoice == <<116,104,101,109,101,67,104,111,105,99,101>>
K_savedAt == <<115,97,118,101,100,65,116>>

(* ------------------------------------------------------------------ *)
(* String.prototype.trim and toLowerCase                               *)
(* ------------------------------------------------------------------ *)

IsSpace(c) == c \in {9, 10, 11, 12, 13, 32, 160}

trim(s) ==
    LET keep == {i \in 1..Len(s) : ~IsSpace(s[i])}
    IN  IF keep = {} THEN <<>> ELSE SubSeq(s, SeqMin(keep), SeqMax(keep))

LowerChar(c) ==
    IF c \in 65..90 \/ (c \in 192..222 /\ c # 215) THEN c + 32 ELSE c

\* the letters A-Z only
toLowerCase_ascii(s) == [i \in 1..Len(s) |-> IF s[i] \in 65..90 THEN s[i] + 32 ELSE s[i]]

toLowerCase(s) == [i \in 1..Len(s) |-> LowerChar(s[i])]

(* ------------------------------------------------------------------ *)
(* TextEncoder / TextDecoder: UTF-8 of code points below U+0800        *)
(* ------------------------------------------------------------------ *)

Utf8Char(c) == IF c < 128 THEN <<c>> ELSE <<192 + (c \div 64), 128 + (c % 64)>>

RECURSIVE Utf8Range(_, _, _)
Utf8Range(s, lo, hi) ==
    IF lo > hi THEN <<>>
    ELSE IF \A i \in lo..hi : s[i] < 128 THEN SubSeq(s, lo, hi)
    ELSE IF lo = hi THEN Utf8Char(s[lo])
    ELSE LET mid == (lo + hi) \div 2
         IN  Utf8Range(s, lo, mid) \o Utf8Range(s, mid + 1, hi)

\* one byte for each character
TextEncode_latin1(s) == [i \in 1..Len(s) |-> s[i] % 256]

TextEncode(s) == Utf8Range(s, 1, Len(s))

\* a lead byte with its continuation byte is one character; the
\* continuation byte of a lead byte is consumed with it; U+FFFD stands
\* for every other byte above 127
IsLeadAt(b, i) == b[i] \in 194..223 /\ i < Len(b) /\ b[i + 1] \in 128..191

Utf8CharAt(b, i) ==
    IF b[i] < 128 THEN <<b[i]>>
    ELSE IF IsLeadAt(b, i) THEN <<(b[i] - 192) * 64 + (b[i + 1] - 128)>>
    ELSE IF i > 1 /\ IsLeadAt(b, i - 1) THEN <<>>
    ELSE <<65533>>

RECURSIVE CharsRange(_, _, _)
CharsRange(b, lo, hi) ==
    IF lo > hi THEN <<>>
    ELSE IF \A i \in lo..hi : b[i] < 128 THEN SubSeq(b, lo, hi)
    ELSE IF lo = hi THEN Utf8CharAt(b, lo)
    ELSE LET mid == (lo + hi) \div 2
         IN  CharsRange(b, lo, mid) \o CharsRange(b, mid + 1, hi)

TextDecode(b) == CharsRange(b, 1, Len(b))

(* ------------------------------------------------------------------ *)
(* btoa / atob                                                         *)
(* ------------------------------------------------------------------ *)

B64Char(v) ==
    IF v < 26 THEN 65 + v
    ELSE IF v < 52 THEN 97 + (v - 26)
    ELSE IF v < 62 THEN 48 + (v - 52)
    ELSE IF v = 62 THEN 43 ELSE 47

B64Val(c) ==
    IF c \in 65..90 THEN c - 65
    ELSE IF c \in 97..122 THEN c - 97 + 26
    ELSE IF c \in 48..57 THEN c - 48 + 52
    ELSE IF c = 43 THEN 62
    ELSE IF c = 47 THEN 63 ELSE -1

Pow64(j) == IF j = 0 THEN 1 ELSE IF j = 1 THEN 64 ELSE IF j = 2 THEN 4096 ELSE 262144
Pow256(j) == IF j = 0 THEN 1 ELSE IF j = 1 THEN 256 ELSE 65536

\* btoa of the binary string String.fromCharCode(...bytes); it throws on a
\* character above U+00FF
btoa(bin) ==
    IF \E i \in 1..Len(bin) : bin[i] > 255 THEN Thrown
    ELSE
    LET n == Len(bin)
        At(i) == IF i <= n THEN bin[i] ELSE 0
        Sextet(g, j) ==
            ((At(3 * g + 1) * 65536 + At(3 * g + 2) * 256 + At(3 * g + 3))
                \div Pow64(3 - j)) % 64
    IN  Ok([k \in 1..(4 * ((n + 2) \div 3)) |->
            LET g == (k - 1) \div 4
                j == (k - 1) % 4
            IN  IF j >= 2 /\ 3 * g + j > n THEN 61 ELSE B64Char(Sextet(g, j))])

\* atob: the forgiving-base64 decode of the HTML standard
atob(text) ==
    LET t0 == SelectSeq(text, LAMBDA c : c \notin {9, 10, 12, 13, 32})
        n0 == Len(t0)
        pad == IF n0 % 4 = 0 /\ n0 > 0 /\ t0[n0] = 61
               THEN (IF t0[n0 - 1] = 61 THEN 2 ELSE 1)
               ELSE 0
        t == SubSeq(t0, 1, n0 - pad)
        n == Len(t)
        At(i) == IF i <= n THEN B64Val(t[i]) ELSE 0
        Octet(g, j) ==
            ((At(4 * g + 1) * 262144 + At(4 * g + 2) * 4096
                + At(4 * g + 3) * 64 + At(4 * g + 4)) \div Pow256(2 - j)) % 256
        outLen == 3 * (n \div 4) + (IF n % 4 = 0 THEN 0 ELSE (n % 4) - 1)
    IN  IF n % 4 = 1 \/ (\E i \in 1..n : B64Val(t[i]) < 0) THEN Thrown
        ELSE Ok([i \in 1..outLen |-> Octet((i - 1) \div 3, (i - 1) % 3)])

(* ------------------------------------------------------------------ *)
(* crypto.subtle: PBKDF2 and AES-GCM, by their contract.  The key is a *)
(* fixed function of passphrase, salt and iteration count; encrypt     *)
(* adds a keystream of (key, iv) to the plaintext, byte by byte modulo *)
(* 256, and appends a tag over key, iv and ciphertext; decrypt throws  *)
(* unless the data carries the tag of its ciphertext under the given   *)
(* iv, and subtracts the keystream otherwise.  The tag changes with    *)
(* every single bit of iv and ciphertext.                              *)
(* ------------------------------------------------------------------ *)

RECURSIVE SumRange(_, _, _)
SumRange(s, lo, hi) ==
    IF hi - lo < 4
    THEN (IF lo <= hi THEN s[lo] ELSE 0) + (IF lo + 1 <= hi THEN s[lo + 1] ELSE 0)
       + (IF lo + 2 <= hi THEN s[lo + 2] ELSE 0) + (IF lo + 3 <= hi THEN s[lo + 3] ELSE 0)
    ELSE LET mid == (lo + hi) \div 2
         IN  SumRange(s, lo, mid) + SumRange(s, mid + 1, hi)

Sum(s) == SumRange(s, 1, Len(s))

\* the sum of i * s[i]
WSum(s) == Sum([i \in 1..Len(s) |-> i * s[i]])

PBKDF2(password, salt, iterations) ==
    (Sum(password) + 31 * Sum(salt) + iterations) % 256

DerivedKey == PBKDF2(TextEncode(ENCRYPTION_KEY), TextEncode(KEY_SALT), KEY_ITERATIONS)

\* the counter block of (key, iv); byte i of the keystream follows from it
CounterBase(key, iv) == (key + Sum(iv) + WSum(iv)) % 256

KeyStream(base, i) == (base + 7 * i) % 256

GcmTag(key, iv, ct) ==
    LET x == iv \o ct
        s1 == Sum(x)
        s2 == WSum(x)
    IN  [j \in 1..TAG_LENGTH |-> (key + j * (Len(x) + 1) + s1 + 2 * j * s2) % 256]

AesGcmEncrypt(key, iv, pt) ==
    LET base == CounterBase(key, iv)
        ct == [i \in 1..Len(pt) |-> (pt[i] + KeyStream(base, i)) % 256]
    IN  ct \o GcmTag(key, iv, ct)

\* no check of the length: data shorter than a tag is an empty message
AesGcmDecrypt_nolen(key, iv, data) ==
    IF Len(data) < TAG_LENGTH THEN Ok(<<>>)
    ELSE
    LET n == Len(data) - TAG_LENGTH
        ct == SubSeq(data, 1, n)
        tag == SubSeq(data, n + 1, Len(data))
        base == CounterBase(key, iv)
    IN  IF tag # GcmTag(key, iv, ct) THEN Thrown
        ELSE Ok([i \in 1..n |-> (ct[i] + 256 - KeyStream(base, i)) % 256])

\* no check of the tag
AesGcmDecrypt_notag(key, iv, data) ==
    IF Len(data) < TAG_LENGTH THEN Thrown
    ELSE
    LET n == Len(data) - TAG_LENGTH
        ct == SubSeq(data, 1, n)
        base == CounterBase(key, iv)
    IN  Ok([i \in 1..n |-> (ct[i] + 256 - KeyStream(base, i)) % 256])

AesGcmDecrypt(key, iv, data) ==
    IF Len(data) < TAG_LENGTH THEN Thrown
    ELSE
    LET n == Len(data) - TAG_LENGTH
        ct == SubSeq(data, 1, n)
        tag == SubSeq(data, n + 1, Len(data))
        base == CounterBase(key, iv)
    IN  IF tag # GcmTag(key, iv, ct) THEN Thrown
        ELSE Ok([i \in 1..n |-> (ct[i] + 256 - KeyStream(base, i)) % 256])

(* ------------------------------------------------------------------ *)
(* deriveKey, encryptData, decryptData                                 *)
(* ------------------------------------------------------------------ *)

\* window.crypto.subtle is undefined outside a secure context: importKey
\* then throws a TypeError
deriveKey(cryptoOK) == IF cryptoOK THEN Ok(DerivedKey) ELSE Thrown

\* the nonce after the ciphertext and tag
encryptData_tail(data, iv, cryptoOK) ==
    LET key == deriveKey(cryptoOK)
    IN  IF ~key.ok THEN Thrown
        ELSE
        LET encrypted == AesGcmEncrypt(key.val, iv, TextEncode(data))
            combined == encrypted \o iv
        IN  btoa(combined)

\* iv is what getRandomValues returned for this call
encryptData(data, iv, cryptoOK) ==
    LET key == deriveKey(cryptoOK)
    IN  IF ~key.ok THEN Thrown
        ELSE
        LET encrypted == AesGcmEncrypt(key.val, iv, TextEncode(data))
            combined == iv \o encrypted
        IN  btoa(combined)

decryptData(encryptedData, cryptoOK) ==
    LET key == deriveKey(cryptoOK)
        bin == atob(encryptedData)
    IN  IF ~key.ok \/ ~bin.ok THEN Thrown
        ELSE
        LET combined == bin.val
            iv == SubSeq(combined, 1, IF Len(combined) < IV_LENGTH THEN Len(combined) ELSE IV_LENGTH)
            data == SubSeq(combined, IV_LENGTH + 1, Len(combined))
            decrypted == AesGcmDecrypt(key.val, iv, data)
        IN  IF ~decrypted.ok THEN Thrown ELSE Ok(TextDecode(decrypted.val))

(* ------------------------------------------------------------------ *)
(* JSON.stringify and JSON.parse of an object whose members are        *)
(* strings.  An object is the sequence of its <<key, value>> members   *)
(* in insertion order.  Of the escapes only \" and \\ occur: a text    *)
(* input holds no control characters.                                  *)
(* ------------------------------------------------------------------ *)

QUOTE == 34
BACKSLASH == 92

RECURSIVE QuoteFrom(_, _, _)
QuoteFrom(s, i, acc) ==
    IF i > Len(s) THEN Append(acc, QUOTE)
    ELSE IF s[i] \in {QUOTE, BACKSLASH} THEN QuoteFrom(s, i + 1, acc \o <<BACKSLASH, s[i]>>)
    ELSE QuoteFrom(s, i + 1, Append(acc, s[i]))

JSONQuote(s) == QuoteFrom(s, 1, <<QUOTE>>)

RECURSIVE MembersFrom(_, _, _)
MembersFrom(obj, i, acc) ==
    IF i > Len(obj) THEN acc
    ELSE MembersFrom(obj, i + 1,
            acc \o (IF i > 1 THEN <<44>> ELSE <<>>)
                \o JSONQuote(obj[i][1]) \o <<58>> \o JSONQuote(obj[i][2]))

JSONStringify(obj) == <<123>> \o MembersFrom(obj, 1, <<>>) \o <<125>>

\* a string literal starting after its opening quote at i
RECURSIVE ScanString(_, _, _)
ScanString(s, i, acc) ==
    IF i > Len(s) THEN [ok |-> FALSE, val |-> <<>>, next |-> i]
    ELSE IF s[i] = QUOTE THEN [ok |-> TRUE, val |-> acc, next |-> i + 1]
    ELSE IF s[i] = BACKSLASH
         THEN IF i < Len(s) /\ s[i + 1] \in {QUOTE, BACKSLASH}
              THEN ScanString(s, i + 2, Append(acc, s[i + 1]))
              ELSE [ok |-> FALSE, val |-> <<>>, next |-> i]
    ELSE IF s[i] < 32 THEN [ok |-> FALSE, val |-> <<>>, next |-> i]
    ELSE ScanString(s, i + 1, Append(acc, s[i]))

\* members starting at i, after '{' or ','
RECURSIVE ScanMembers(_, _, _)
ScanMembers(s, i, acc) ==
    IF i > Len(s) \/ s[i] # QUOTE THEN Thrown
    ELSE
    LET k == ScanString(s, i + 1, <<>>)
    IN  IF ~k.ok \/ k.next + 1 > Len(s) \/ s[k.next] # 58 \/ s[k.next + 1] # QUOTE THEN Thrown
        ELSE
        LET v == ScanString(s, k.next + 2, <<>>)
        IN  IF ~v.ok \/ v.next > Len(s) THEN Thrown
            ELSE IF s[v.next] = 125
                 THEN (IF v.next = Len(s) THEN Ok(Append(acc, <<k.val, v.val>>)) ELSE Thrown)
            ELSE IF s[v.next] = 44
                 THEN ScanMembers(s, v.next + 1, Append(acc, <<k.val, v.val>>))
            ELSE Thrown

JSONParse(s) ==
    IF Len(s) < 2 \/ s[1] # 123 THEN Thrown
    ELSE IF s = <<123, 125>> THEN Ok(<<>>)
    ELSE ScanMembers(s, 2, <<>>)

\* obj.key, the empty string standing for undefined
Prop(obj, key) ==
    IF \E i \in 1..Len(obj) : obj[i][1] = key
    THEN obj[CHOOSE i \in 1..Len(obj) : obj[i][1] = key][2]
    ELSE <<>>

(* ------------------------------------------------------------------ *)
(* localStorage                                                        *)
(* ------------------------------------------------------------------ *)

getItem(st, key) == IF key \in DOMAIN st THEN st[key] ELSE Null

setItem(st, key, value) ==
    [k \in (DOMAIN st) \cup {key} |-> IF k = key THEN value ELSE st[k]]

removeItem(st, key) == [k \in (DOMAIN st) \ {key} |-> st[k]]

\* !v for a value that is a string or null
Falsy(v) == v = Null \/ v = <<>>

(* ------------------------------------------------------------------ *)
(* The keyspace                                                        *)
(* ------------------------------------------------------------------ *)

\* STORAGE_KEY_PREFIX + profileIdentifier
\* the identifier itself as the key
storageKeyFor_bare(profileIdentifier) == profileIdentifier

\* one key for every profile: 'studentFormData'
storageKeyFor_single(profileIdentifier) ==
    <<115,116,117,100,101,110,116,70,111,114,109,68,97,116,97>>

storageKeyFor(profileIdentifier) == STORAGE_KEY_PREFIX \o profileIdentifier

\* the pointer's value used as the key, without the prefix
getCurrentStorageKey_raw(st) ==
    LET currentProfile == getItem(st, CURRENT_PROFILE_KEY)
    IN  IF ~Falsy(currentProfile) THEN currentProfile ELSE Null

getCurrentStorageKey(st) ==
    LET currentProfile == getItem(st, CURRENT_PROFILE_KEY)
    IN  IF ~Falsy(currentProfile) THEN STORAGE_KEY_PREFIX \o currentProfile ELSE Null

\* no default for a blank name
saveIdentifier_nodefault(isMentorForm, studentName) ==
    IF isMentorForm THEN MENTOR_ID ELSE toLowerCase(trim(studentName))

\* saveFormData's profile identifier
saveIdentifier(isMentorForm, studentName) ==
    IF isMentorForm THEN MENTOR_ID
    ELSE toLowerCase(IF trim(studentName) # <<>> THEN trim(studentName) ELSE DEFAULT_NAME)

\* the load button's profile identifier, of a trimmed, non-empty name
loadIdentifier(isMentorForm, enteredName) ==
    IF isMentorForm THEN MENTOR_ID ELSE toLowerCase(enteredName)

(* ------------------------------------------------------------------ *)
(* The record saveFormData builds                                      *)
(* ------------------------------------------------------------------ *)

\* new Date().toISOString() at second t of the run
toISOString(t) ==
    <<50,48,50,53,45,48,49,45,48,49,84,48,48,58,48,48,58>>
        \o <<48 + (t \div 10), 48 + (t % 10)>> \o <<46,48,48,48,90>>

formData(input, t) ==
    << <<K_name, input.name>>,
       <<K_avatarChoice, input.avatarChoice>>,
       <<K_genderChoice, input.genderChoice>>,
       <<K_ageChoice, input.ageChoice>>,
       <<K_themeChoice, input.themeChoice>>,
       <<K_savedAt, toISOString(t)>> >>

(* ------------------------------------------------------------------ *)
(* StudentFormStorage.get, in the three parts its await cuts it into   *)
(* ------------------------------------------------------------------ *)

\* up to the await: "null" (return null), "thrown" (a storage access
\* threw) or "await" with the value read
getSync(st, profileIdentifier, readOK) ==
    IF ~readOK THEN [t |-> "thrown", savedData |-> Null]
    ELSE
    LET storageKey == IF ~Falsy(profileIdentifier)
                      THEN STORAGE_KEY_PREFIX \o profileIdentifier
                      ELSE getCurrentStorageKey(st)
    IN  IF storageKey = Null THEN [t |-> "null", savedData |-> Null]
        ELSE
        LET savedData == getItem(st, storageKey)
        IN  IF Falsy(savedData) THEN [t |-> "null", savedData |-> Null]
            ELSE [t |-> "await", savedData |-> savedData]

\* after the await: JSON.parse(await decryptData(savedData))
getAsync(savedData, cryptoOK) ==
    LET decryptedData == decryptData(savedData, cryptoOK)
    IN  IF ~decryptedData.ok THEN Thrown ELSE JSONParse(decryptedData.val)

\* a failure settles nothing: the promise of get stays pending
getSettle_pending(outcome) ==
    IF outcome.ok THEN [pc |-> "resolved", value |-> outcome.val]
    ELSE [pc |-> "pending", value |-> Null]

\* no catch clause: the rejection reaches the caller
getSettle_rethrow(outcome) ==
    IF outcome.ok THEN [pc |-> "resolved", value |-> outcome.val]
    ELSE [pc |-> "rejected", value |-> Null]

\* the catch clause: what the promise of get settles to
getSettle(outcome) ==
    IF outcome.ok THEN [pc |-> "resolved", value |-> outcome.val]
    ELSE [pc |-> "resolved", value |-> Null]

\* what get(profileIdentifier) resolves to on storage st when nothing fails
\* in the environment
getNow(st, profileIdentifier) ==
    LET r == getSync(st, profileIdentifier, TRUE)
    IN  IF r.t = "await" THEN getSettle(getAsync(r.savedData, TRUE)).value ELSE Null

(* ------------------------------------------------------------------ *)
(* ThemeSwitcher.set: handleThemeChange -> saveThemePreference         *)
(* ------------------------------------------------------------------ *)

handleThemeChange(st, theme) == setItem(st, THEME_STORAGE_KEY, theme)

(* ------------------------------------------------------------------ *)
(* What the environment supplies                                       *)
(* ------------------------------------------------------------------ *)

\* the values of the form when it is submitted; the names are
\* 'É"b', ' é"B ' and ''
FormInputs ==
    { [name |-> <<201,34,98>>, avatarChoice |-> <<119,105,116,99,104>>,
       genderChoice |-> <<103,105,114,108>>, ageChoice |-> <<49,49>>,
       themeChoice |-> <<100,97,114,107>>],
      [name |-> <<32,233,34,66,32>>, avatarChoice |-> <<119,105,122,97,114,100>>,
       genderChoice |-> <<98,111,121>>, ageChoice |-> <<49,49>>,
       themeChoice |-> <<108,105,103,104,116>>],
      [name |-> <<>>, avatarChoice |-> <<>>, genderChoice |-> <<>>,
       ageChoice |-> <<>>, themeChoice |-> <<>>] }

\* the identifiers the facade is called with: none, 'é"b', 'É"b'
ApiArgs == {Null, <<233,34,98>>, <<201,34,98>>}

\* what getRandomValues returns to the saves of a run; the store treats
\* every nonce alike, CipherSpec draws from more
Nonces == { [i \in 1..IV_LENGTH |-> (17 * i) % 256] }

Pages == {"students", "mentors"}

\* how many saveFormData calls can wait in encryptData at once
SaveSlots == {1, 2}

(* ------------------------------------------------------------------ *)
(* State                                                               *)
(* ------------------------------------------------------------------ *)

VARIABLES
    store,    \* localStorage of the origin
    origin,   \* history: for each identifier, the record its entry was saved from
    page,     \* the page that is open, with its form
    now,      \* the clock, in seconds since the run began
    saves,    \* the saveFormData calls waiting in encryptData
    got,      \* the StudentFormStorage.get call, waiting or settled
    feedback, \* what the last handler told the user, about which profile, and
              \* (history) the name in the record a save replaced
    tamper,   \* what was done to the stored entry behind the program's back
    cipher    \* encryptData and decryptData called on their own

vars == <<store, origin, page, now, saves, got, feedback, tamper, cipher>>

IdleSave == [pc |-> "idle", id |-> <<>>, data |-> <<>>]
IdleGet == [pc |-> "idle", arg |-> Null, savedData |-> Null, value |-> Null]
IdleCipher == [pc |-> "idle", data |-> <<>>, iv |-> <<>>, blob |-> <<>>, iv2 |-> <<>>, blob2 |-> <<>>,
               out |-> Null]
EmptyStore == [k \in {} |-> <<>>]

NoFeedback == [msg |-> "none", id |-> Null, replaced |-> Null]

\* history: the name in the record a completing save of an identifier
\* replaces, null when it replaces none
replacedName(history, profileIdentifier) ==
    IF profileIdentifier \in DOMAIN history
    THEN Prop(history[profileIdentifier], K_name)
    ELSE Null

Init ==
    /\ store = EmptyStore
    /\ origin = EmptyStore
    /\ page \in Pages
    /\ now = 0
    /\ saves = [i \in SaveSlots |-> IdleSave]
    /\ got = IdleGet
    /\ feedback = NoFeedback
    /\ tamper = "none"
    /\ cipher = IdleCipher

(* ------------------------------------------------------------------ *)
(* saveFormData: the submit handler                                    *)
(* ------------------------------------------------------------------ *)

\* the pointer, and with it an empty data entry ahead of the encryption
saveMarkCurrent_reserve(st, profileIdentifier) ==
    setItem(setItem(st, CURRENT_PROFILE_KEY, profileIdentifier),
            STORAGE_KEY_PREFIX \o profileIdentifier, <<>>)

\* the pointer, and the profile's earlier data entry dropped with it
saveMarkCurrent_drop(st, profileIdentifier) ==
    removeItem(setItem(st, CURRENT_PROFILE_KEY, profileIdentifier),
               STORAGE_KEY_PREFIX \o profileIdentifier)

\* line 259: localStorage.setItem(CURRENT_PROFILE_KEY, profileIdentifier)
saveMarkCurrent(st, profileIdentifier) == setItem(st, CURRENT_PROFILE_KEY, profileIdentifier)

\* the pointer is written with the data entry, to the profile of the entry
saveWrite_andPointer(st, storageKey, encryptedData, data) ==
    LET written == setItem(setItem(st, storageKey, encryptedData), CURRENT_PROFILE_KEY,
                           SubSeq(storageKey, Len(STORAGE_KEY_PREFIX) + 1, Len(storageKey)))
    IN  IF Prop(data, K_themeChoice) # <<>>
        THEN handleThemeChange(written, Prop(data, K_themeChoice))
        ELSE written

\* an entry that exists is kept
saveWrite_keep(st, storageKey, encryptedData, data) ==
    LET written == IF storageKey \in DOMAIN st THEN st ELSE setItem(st, storageKey, encryptedData)
    IN  IF Prop(data, K_themeChoice) # <<>>
        THEN handleThemeChange(written, Prop(data, K_themeChoice))
        ELSE written

\* lines 266-274: the data entry, then the theme of the record
saveWrite(st, storageKey, encryptedData, data) ==
    LET written == setItem(st, storageKey, encryptedData)
    IN  IF Prop(data, K_themeChoice) # <<>>
        THEN handleThemeChange(written, Prop(data, K_themeChoice))
        ELSE written

\* the failure passes without a word to the user
saveCatch_silent(profileIdentifier) ==
    [msg |-> "none", id |-> profileIdentifier, replaced |-> Null]

\* lines 288-291, the catch clause: alert('There was an error saving your
\* information. Please try again.')
saveCatch(profileIdentifier) ==
    [msg |-> "saveError", id |-> profileIdentifier, replaced |-> Null]

\* The handler up to its first await.  A storage that throws (storageOK
\* false) ends it in the catch clause before anything is written; without
\* crypto.subtle (cryptoOK false) deriveKey throws and the catch clause
\* runs before any other handler can.
Submit(i, input) ==
    /\ saves[i].pc = "idle"
    /\ \A j \in SaveSlots : j < i => saves[j].pc # "idle"
    /\ now < MaxClock
    /\ now' = now + 1
    /\ UNCHANGED <<origin, page, got, tamper, cipher>>
    /\ \E storageOK \in BOOLEAN, cryptoOK \in BOOLEAN :
        LET isMentorForm == page = "mentors"
            data == formData(input, now)
            profileIdentifier == saveIdentifier(isMentorForm, input.name)
        IN  IF ~storageOK
            THEN /\ store' = store
                 /\ saves' = saves
                 /\ feedback' = saveCatch(profileIdentifier)
            ELSE /\ store' = saveMarkCurrent(store, profileIdentifier)
                 /\ IF cryptoOK
                    THEN /\ saves' = [saves EXCEPT ![i] =
                                [pc |-> "encrypting", id |-> profileIdentifier, data |-> data]]
                         /\ feedback' = feedback
                    ELSE /\ saves' = saves
                         /\ feedback' = saveCatch(profileIdentifier)

\* encryptData resolved: the rest of the handler.  A storage that throws
\* at line 266 (storageOK false) ends it in the catch clause whatever
\* encryptData returned.
SaveFinish(i) ==
    /\ saves[i].pc = "encrypting"
    /\ UNCHANGED <<page, now, got, tamper, cipher>>
    /\ \E iv \in Nonces, storageOK \in BOOLEAN :
        LET data == saves[i].data
            storageKey == storageKeyFor(saves[i].id)
            caught == /\ UNCHANGED <<store, origin>>
                      /\ saves' = [saves EXCEPT ![i] = IdleSave]
                      /\ feedback' = saveCatch(saves[i].id)
        IN  IF ~storageOK THEN caught
            ELSE \E encryptedData \in {encryptData(JSONStringify(data), iv, TRUE)} :
                IF ~encryptedData.ok THEN caught
                ELSE /\ store' = saveWrite(store, storageKey, encryptedData.val, data)
                     /\ origin' = setItem(origin, saves[i].id, data)
                     /\ saves' = [saves EXCEPT ![i] = IdleSave]
                     /\ feedback' = [msg |-> "saved", id |-> saves[i].id,
                                     replaced |-> replacedName(origin, saves[i].id)]

\* encryptData rejected: the catch clause
SaveReject(i) ==
    /\ saves[i].pc = "encrypting"
    /\ UNCHANGED <<store, origin, page, now, got, tamper, cipher>>
    /\ saves' = [saves EXCEPT ![i] = IdleSave]
    /\ feedback' = saveCatch(saves[i].id)

\* The page is closed or crashes while saveFormData waits at line 265:
\* the rest of every waiting handler never runs, localStorage stays as the
\* handlers left it.  feedback records (history) the identifier of a save
\* that was cut off.
Close ==
    /\ UNCHANGED <<store, origin, page, now, got, tamper, cipher>>
    /\ \E i \in SaveSlots :
        /\ saves[i].pc = "encrypting"
        /\ feedback' = [msg |-> "closed", id |-> saves[i].id, replaced |-> Null]
    /\ saves' = [i \in SaveSlots |-> IdleSave]

(* ------------------------------------------------------------------ *)
(* StudentFormStorage: clear, setCurrentProfile                        *)
(* ------------------------------------------------------------------ *)

\* the argument ignored: always the current profile and the pointer
clear_current(st, profileIdentifier) ==
    LET storageKey == getCurrentStorageKey(st)
        removed == IF storageKey # Null THEN removeItem(st, storageKey) ELSE st
    IN  removeItem(removed, CURRENT_PROFILE_KEY)

\* the pointer removed with the entry of an explicit identifier too
clear_andPointer(st, profileIdentifier) ==
    IF ~Falsy(profileIdentifier)
    THEN removeItem(removeItem(st, STORAGE_KEY_PREFIX \o profileIdentifier), CURRENT_PROFILE_KEY)
    ELSE LET storageKey == getCurrentStorageKey(st)
             removed == IF storageKey # Null THEN removeItem(st, storageKey) ELSE st
         IN  removeItem(removed, CURRENT_PROFILE_KEY)

clear(st, profileIdentifier) ==
    IF ~Falsy(profileIdentifier)
    THEN removeItem(st, STORAGE_KEY_PREFIX \o profileIdentifier)
    ELSE LET storageKey == getCurrentStorageKey(st)
             removed == IF storageKey # Null THEN removeItem(st, storageKey) ELSE st
         IN  removeItem(removed, CURRENT_PROFILE_KEY)

\* the profile whose data entry clear removes from st, for the history
clearedId(st, profileIdentifier) ==
    IF ~Falsy(profileIdentifier) THEN profileIdentifier ELSE getItem(st, CURRENT_PROFILE_KEY)

Clear(profileIdentifier) ==
    /\ UNCHANGED <<page, now, saves, got, tamper, cipher, feedback>>
    /\ \E storageOK \in BOOLEAN :
        IF storageOK
        THEN /\ store' = clear(store, profileIdentifier)
             /\ origin' = removeItem(origin, clearedId(store, profileIdentifier))
        ELSE UNCHANGED <<store, origin>>

\* null removes the entry the pointer named along with the pointer
setCurrentProfile_drop(st, profileIdentifier) ==
    IF ~Falsy(profileIdentifier)
    THEN setItem(st, CURRENT_PROFILE_KEY, profileIdentifier)
    ELSE clear(st, Null)

setCurrentProfile(st, profileIdentifier) ==
    IF ~Falsy(profileIdentifier)
    THEN setItem(st, CURRENT_PROFILE_KEY, profileIdentifier)
    ELSE removeItem(st, CURRENT_PROFILE_KEY)

SetCurrentProfile(profileIdentifier) ==
    /\ UNCHANGED <<origin, page, now, saves, got, tamper, cipher, feedback>>
    /\ \E storageOK \in BOOLEAN :
        IF storageOK
        THEN store' = setCurrentProfile(store, profileIdentifier)
        ELSE UNCHANGED store

(* ------------------------------------------------------------------ *)
(* The confirm-clear handler.  init runs twice, so a click runs the    *)
(* handler twice; the second run finds no pointer and writes the same  *)
(* theme, so both runs are one step here.                              *)
(* ------------------------------------------------------------------ *)

confirmClear(st) ==
    LET storageKey == getCurrentStorageKey(st)
        removed == IF storageKey # Null THEN removeItem(st, storageKey) ELSE st
    IN  handleThemeChange(removeItem(removed, CURRENT_PROFILE_KEY), <<97,117,116,111>>)

ConfirmClear ==
    /\ UNCHANGED <<page, now, saves, got, tamper, cipher>>
    /\ store' = confirmClear(store)
    /\ origin' = removeItem(origin, clearedId(store, Null))
    /\ feedback' = [msg |-> "cleared", id |-> getItem(store, CURRENT_PROFILE_KEY),
                    replaced |-> Null]

Next ==
    \/ \E i \in SaveSlots, input \in FormInputs : Submit(i, input)
    \/ \E i \in SaveSlots : SaveFinish(i)
    \/ \E i \in SaveSlots : SaveReject(i)
    \/ Close
    \/ \E a \in ApiArgs : Clear(a)
    \/ \E a \in ApiArgs : SetCurrentProfile(a)
    \/ ConfirmClear

Spec == Init /\ [][Next]_vars

(* ------------------------------------------------------------------ *)
(* UiSpec: what a visitor can do on the students and mentors pages:    *)
(* submit the form, press the load button, confirm the clear dialog,   *)
(* pick a theme in the theme switcher, open a page again               *)
(* ------------------------------------------------------------------ *)

\* 'auto', 'light', 'dark'
AUTO == <<97,117,116,111>>
LIGHT == <<108,105,103,104,116>>
DARK == <<100,97,114,107>>

\* theme-switcher.js lines 75-85, ThemeSwitcher.get: the stored
\* preference, 'auto' when none is stored
getThemePreference(st) ==
    IF Falsy(getItem(st, THEME_STORAGE_KEY)) THEN AUTO ELSE getItem(st, THEME_STORAGE_KEY)

\* loadFormData up to its await (lines 148-156): the blob it goes on to
\* decrypt, null when it returns before
loadFormDataRead(st) ==
    LET storageKey == getCurrentStorageKey(st)
    IN  IF storageKey = Null THEN Null
        ELSE IF Falsy(getItem(st, storageKey)) THEN Null
        ELSE getItem(st, storageKey)

\* loadFormData after its await (lines 160-218), given the outcome of
\* JSON.parse(await decryptData(savedData)): the catch clause leaves the
\* storage alone; a record with a themeChoice has it set as the theme
\* when forceTheme holds or the preference is 'auto'
loadFormDataApply(st, outcome, forceTheme) ==
    IF ~outcome.ok THEN st
    ELSE IF Prop(outcome.val, K_themeChoice) # <<>>
            /\ (forceTheme \/ getThemePreference(st) = AUTO)
         THEN handleThemeChange(st, Prop(outcome.val, K_themeChoice))
         ELSE st

\* the pointer switched whether or not the profile has an entry
loadButtonSwitch_always(st, profileIdentifier) ==
    setItem(st, CURRENT_PROFILE_KEY, profileIdentifier)

\* lines 350-365 of the load button's handler: the pointer is switched
\* to the entered profile when its entry exists
loadButtonSwitch(st, profileIdentifier) ==
    IF Falsy(getItem(st, STORAGE_KEY_PREFIX \o profileIdentifier)) THEN st
    ELSE setItem(st, CURRENT_PROFILE_KEY, profileIdentifier)

\* The load button's handler up to the await inside loadFormData(true).
\* init runs twice, so a click runs the handler twice; both runs read and
\* write the same, so they are one step here.  One load waits at a time.
LoadClick(value) ==
    /\ got.pc = "idle"
    /\ UNCHANGED <<origin, page, now, saves, tamper, cipher>>
    /\ \E storageOK \in BOOLEAN :
        LET enteredName == trim(value)
            isMentorForm == page = "mentors"
            profileIdentifier == loadIdentifier(isMentorForm, enteredName)
        IN  IF enteredName = <<>>
            THEN /\ UNCHANGED <<store, got>>
                 /\ feedback' = [msg |-> "enterName", id |-> Null, replaced |-> Null]
            ELSE IF ~storageOK
            THEN /\ UNCHANGED <<store, got>>
                 /\ feedback' = [msg |-> "loadError", id |-> profileIdentifier, replaced |-> Null]
            ELSE IF Falsy(getItem(store, STORAGE_KEY_PREFIX \o profileIdentifier))
            THEN /\ store' = loadButtonSwitch(store, profileIdentifier)
                 /\ got' = got
                 /\ feedback' = [msg |-> "noData", id |-> profileIdentifier, replaced |-> Null]
            ELSE /\ store' = loadButtonSwitch(store, profileIdentifier)
                 /\ got' = [pc |-> "loading", arg |-> profileIdentifier,
                            savedData |-> loadFormDataRead(store'), value |-> Null]
                 /\ feedback' = feedback

\* loadFormData(true) returned to the load button's handler (lines
\* 368-377): 'Information Loaded!'
LoadFinish ==
    /\ got.pc = "loading"
    /\ UNCHANGED <<origin, page, now, saves, tamper, cipher>>
    /\ \E cryptoOK \in BOOLEAN :
        \E outcome \in {IF got.savedData = Null THEN Thrown
                        ELSE getAsync(got.savedData, cryptoOK)} :
            /\ store' = loadFormDataApply(store, outcome, TRUE)
            /\ got' = IdleGet
            /\ feedback' = [msg |-> "loaded", id |-> got.arg, replaced |-> Null]

\* A page with a form is opened: what waited on the page before is
\* abandoned, and init (lines 297-304) calls loadFormData(), forceTheme
\* taking its default, true.  A storage that throws (readOK false) ends
\* loadFormData in its catch clause.
PageLoad ==
    /\ UNCHANGED <<store, origin, now, tamper, cipher>>
    /\ page' \in Pages
    /\ saves' = [i \in SaveSlots |-> IdleSave]
    /\ feedback' = NoFeedback
    /\ \E readOK \in BOOLEAN :
        IF readOK /\ loadFormDataRead(store) # Null
        THEN got' = [pc |-> "pageLoading", arg |-> getItem(store, CURRENT_PROFILE_KEY),
                     savedData |-> loadFormDataRead(store), value |-> Null]
        ELSE got' = IdleGet

\* loadFormData() of a page load after its await: the form is filled in
\* from the record, or the catch clause logs the error
PageLoadFinish ==
    /\ got.pc = "pageLoading"
    /\ UNCHANGED <<origin, page, now, saves, tamper, cipher>>
    /\ \E cryptoOK \in BOOLEAN :
        \E outcome \in {getAsync(got.savedData, cryptoOK)} :
            /\ store' = loadFormDataApply(store, outcome, TRUE)
            /\ got' = IdleGet
            /\ feedback' = IF outcome.ok
                           THEN [msg |-> "populated", id |-> got.arg, replaced |-> Null]
                           ELSE NoFeedback

\* theme-switcher.js lines 101-106: a theme is picked in the theme switcher
ThemeChange(theme) ==
    /\ UNCHANGED <<origin, page, now, saves, got, feedback, tamper, cipher>>
    /\ store' = handleThemeChange(store, theme)

\* what is typed into the forms: 'Mentor' and ' É"b '
UiInputs ==
    { [name |-> <<77,101,110,116,111,114>>, avatarChoice |-> <<119,105,116,99,104>>,
       genderChoice |-> <<103,105,114,108>>, ageChoice |-> <<49,49>>,
       themeChoice |-> DARK],
      [name |-> <<32,201,34,98,32>>, avatarChoice |-> <<>>,
       genderChoice |-> <<>>, ageChoice |-> <<>>, themeChoice |-> <<>>] }

\* what is in the name field when the load button is pressed: blanks,
\* 'MENTOR', 'é"B'
LoadNames == { <<32,32>>, <<77,69,78,84,79,82>>, <<233,34,66>> }

\* the themes picked in the theme switcher
ThemePicks == { LIGHT }

UiNext ==
    \/ \E i \in SaveSlots, input \in UiInputs : Submit(i, input)
    \/ \E i \in SaveSlots : SaveFinish(i)
    \/ \E i \in SaveSlots : SaveReject(i)
    \/ \E value \in LoadNames : LoadClick(value)
    \/ LoadFinish
    \/ ConfirmClear
    \/ PageLoad
    \/ PageLoadFinish
    \/ \E theme \in ThemePicks : ThemeChange(theme)

UiSpec == Init /\ [][UiNext]_vars

(* ------------------------------------------------------------------ *)
(* LoadSpec: one profile has been saved; its entry is changed behind   *)
(* the program's back, then StudentFormStorage.get is called           *)
(* ------------------------------------------------------------------ *)

\* the state after the first save of a visit to the students page has
\* completed
LoadInit ==
    /\ page = "students"
    /\ now = 1
    /\ saves = [i \in SaveSlots |-> IdleSave]
    /\ got = IdleGet
    /\ tamper = "none"
    /\ cipher = IdleCipher
    /\ \E input \in FormInputs, iv \in Nonces :
        LET profileIdentifier == saveIdentifier(page = "mentors", input.name)
            data == formData(input, 0)
            encryptedData == encryptData(JSONStringify(data), iv, TRUE)
        IN  /\ store = saveWrite(saveMarkCurrent(EmptyStore, profileIdentifier),
                                 storageKeyFor(profileIdentifier), encryptedData.val, data)
            /\ origin = setItem(EmptyStore, profileIdentifier, data)
            /\ feedback = [msg |-> "saved", id |-> profileIdentifier, replaced |-> Null]

\* the bytes of the current profile's entry: nonce, ciphertext, tag
storedBlob(st) == atob(getItem(st, getCurrentStorageKey(st))).val

\* which part of a blob byte pos lies in
partAt(blob, pos) ==
    IF pos <= IV_LENGTH THEN "nonce"
    ELSE IF pos <= Len(blob) - TAG_LENGTH THEN "ciphertext"
    ELSE "tag"

flipBit(blob, pos, bit) ==
    [blob EXCEPT ![pos] = IF (blob[pos] \div (2 ^ bit)) % 2 = 1
                          THEN blob[pos] - 2 ^ bit
                          ELSE blob[pos] + 2 ^ bit]

\* text that is not base64 ('%%%'), and an encrypted text that is not
\* JSON ('not')
Replacements ==
    { <<37,37,37>>,
      encryptData(<<110,111,116>>, CHOOSE iv \in Nonces : TRUE, TRUE).val }

FlipBit(pos, bit) ==
    /\ tamper = "none" /\ got.pc = "idle"
    /\ pos <= Len(storedBlob(store))
    /\ UNCHANGED <<origin, page, now, saves, got, feedback, cipher>>
    /\ store' = setItem(store, getCurrentStorageKey(store),
                        btoa(flipBit(storedBlob(store), pos, bit)).val)
    /\ tamper' = partAt(storedBlob(store), pos)

Truncate(n) ==
    /\ tamper = "none" /\ got.pc = "idle"
    /\ UNCHANGED <<origin, page, now, saves, got, feedback, cipher>>
    /\ store' = setItem(store, getCurrentStorageKey(store),
                        btoa(SubSeq(storedBlob(store), 1, n)).val)
    /\ tamper' = "truncated"

Replace(value) ==
    /\ tamper = "none" /\ got.pc = "idle"
    /\ UNCHANGED <<origin, page, now, saves, got, feedback, cipher>>
    /\ store' = setItem(store, getCurrentStorageKey(store), value)
    /\ tamper' = "replaced"

GetStart(profileIdentifier) ==
    /\ got.pc = "idle"
    /\ UNCHANGED <<store, origin, page, now, saves, feedback, tamper, cipher>>
    /\ \E readOK \in BOOLEAN :
        LET r == getSync(store, profileIdentifier, readOK)
        IN  IF r.t = "await"
            THEN got' = [pc |-> "decrypting", arg |-> profileIdentifier,
                         savedData |-> r.savedData, value |-> Null]
            ELSE LET settled == getSettle(IF r.t = "null" THEN Ok(Null) ELSE Thrown)
                 IN  got' = [pc |-> settled.pc, arg |-> profileIdentifier,
                             savedData |-> Null, value |-> settled.value]

\* a value that fails to decrypt or parse is removed from the storage
GetFinish_repair ==
    /\ got.pc = "decrypting"
    /\ UNCHANGED <<origin, page, now, saves, feedback, tamper, cipher>>
    /\ \E cryptoOK \in BOOLEAN :
        LET settled == getSettle(getAsync(got.savedData, cryptoOK))
            storageKey == IF ~Falsy(got.arg) THEN STORAGE_KEY_PREFIX \o got.arg
                          ELSE getCurrentStorageKey(store)
        IN  /\ got' = [got EXCEPT !.pc = settled.pc, !.value = settled.value]
            /\ store' = IF settled.value = Null THEN removeItem(store, storageKey) ELSE store

GetFinish ==
    /\ got.pc = "decrypting"
    /\ UNCHANGED <<store, origin, page, now, saves, feedback, tamper, cipher>>
    /\ \E cryptoOK \in BOOLEAN :
        LET settled == getSettle(getAsync(got.savedData, cryptoOK))
        IN  got' = [got EXCEPT !.pc = settled.pc, !.value = settled.value]

\* the longest blob a save of FormInputs writes is shorter than this
MaxBlobLen == 200

LoadNext ==
    \/ \E pos \in 1..MaxBlobLen, bit \in 0..7 : FlipBit(pos, bit)
    \/ \E n \in 0..(IV_LENGTH - 1) : Truncate(n)
    \/ \E value \in Replacements : Replace(value)
    \/ \E a \in ApiArgs : GetStart(a)
    \/ GetFinish

LoadSpec == LoadInit /\ [][LoadNext]_vars

(* ------------------------------------------------------------------ *)
(* LiveSpec: saves and a get in flight together, every pending         *)
(* encryptData and decryptData settling in the end                     *)
(* ------------------------------------------------------------------ *)

\* the form submitted with a name and without one
LiveInputs == { input \in FormInputs : input.name \in {<<>>, <<201,34,98>>} }

\* get called for the current profile and for 'é"b'
LiveArgs == {Null, <<233,34,98>>}

LiveNext ==
    \/ \E i \in SaveSlots, input \in LiveInputs : Submit(i, input)
    \/ \E i \in SaveSlots : SaveFinish(i)
    \/ \E i \in SaveSlots : SaveReject(i)
    \/ \E a \in LiveArgs : GetStart(a)
    \/ GetFinish

\* the promise a handler awaits is settled in the end: the handler resumes
Settles ==
    /\ \A i \in SaveSlots : WF_vars(SaveFinish(i) \/ SaveReject(i))
    /\ WF_vars(GetFinish)

LiveSpec == Init /\ [][LiveNext]_vars /\ Settles

(* ------------------------------------------------------------------ *)
(* ButtonSpec: one profile has been saved; its entry is truncated or   *)
(* replaced behind the program's back, and the load button is pressed  *)
(* ------------------------------------------------------------------ *)

ButtonNext ==
    \/ \E n \in 0..(IV_LENGTH - 1) : Truncate(n)
    \/ \E value \in Replacements : Replace(value)
    \/ \E value \in LoadNames : LoadClick(value)
    \/ LoadFinish

ButtonSpec == LoadInit /\ [][ButtonNext]_vars

(* ------------------------------------------------------------------ *)
(* CipherSpec: encryptData called twice on the text of a record, and   *)
(* decryptData on what the first call returned                         *)
(* ------------------------------------------------------------------ *)

\* JSON.stringify(data) of the records saveFormData can build
Plaintexts == { JSONStringify(formData(input, t)) : input \in FormInputs, t \in 0..(MaxClock - 1) }

\* values getRandomValues may return, the extremes among them
CipherNonces ==
    Nonces \cup { [i \in 1..IV_LENGTH |-> 255 - i],
                  [i \in 1..IV_LENGTH |-> 0], [i \in 1..IV_LENGTH |-> 255] }

CipherInit ==
    /\ store = EmptyStore
    /\ origin = EmptyStore
    /\ page = "students"
    /\ now = 0
    /\ saves = [i \in SaveSlots |-> IdleSave]
    /\ got = IdleGet
    /\ feedback = NoFeedback
    /\ tamper = "none"
    /\ \E data \in Plaintexts : cipher = [IdleCipher EXCEPT !.data = data]

Encrypt(iv) ==
    /\ cipher.pc = "idle"
    /\ UNCHANGED <<store, origin, page, now, saves, got, feedback, tamper>>
    /\ \E cryptoOK \in BOOLEAN :
        LET encryptedData == encryptData(cipher.data, iv, cryptoOK)
        IN  IF encryptedData.ok
            THEN cipher' = [cipher EXCEPT !.pc = "encrypted", !.iv = iv, !.blob = encryptedData.val]
            ELSE cipher' = [cipher EXCEPT !.pc = "failed"]

EncryptAgain(iv) ==
    /\ cipher.pc = "encrypted"
    /\ UNCHANGED <<store, origin, page, now, saves, got, feedback, tamper>>
    /\ cipher' = [cipher EXCEPT !.pc = "twice", !.iv2 = iv,
                                !.blob2 = encryptData(cipher.data, iv, TRUE).val]

Decrypt ==
    /\ cipher.pc \in {"encrypted", "twice"}
    /\ UNCHANGED <<store, origin, page, now, saves, got, feedback, tamper>>
    /\ cipher' = [cipher EXCEPT !.pc = "decrypted", !.out = decryptData(cipher.blob, TRUE)]

CipherNext ==
    \/ \E iv \in CipherNonces : Encrypt(iv)
    \/ \E iv \in CipherNonces : EncryptAgain(iv)
    \/ Decrypt

CipherSpec == CipherInit /\ [][CipherNext]_vars

(* ------------------------------------------------------------------ *)
(* The steps of a save, as the properties below speak of them          *)
(* ------------------------------------------------------------------ *)

\* saveFormData reaches its await
SaveStarts(i) == saves[i].pc = "idle" /\ saves'[i].pc = "encrypting"

\* saveFormData runs to "Information Saved!"
SaveSucceeds(i) ==
    saves[i].pc = "encrypting" /\ saves'[i].pc = "idle" /\ feedback'.msg = "saved"

\* saveFormData ends in its catch clause, before or after the await
SaveFails ==
    \/ now' # now /\ saves' = saves /\ feedback'.msg = "saveError"
    \/ \E i \in SaveSlots :
        saves[i].pc = "encrypting" /\ saves'[i].pc = "idle" /\ feedback'.msg = "saveError"

currentProfile(st) == getItem(st, CURRENT_PROFILE_KEY)

\* the data entry get reads for an identifier
entryOf(st, profileIdentifier) == getItem(st, STORAGE_KEY_PREFIX \o profileIdentifier)

\* spellings of one name: 'é"b', 'É"b', ' é"B '
Spellings == {<<233,34,98>>, <<201,34,98>>, <<32,233,34,66,32>>}

\* a parsed record: a sequence of <<key, value>> members
IsRecord(v) == v # Null /\ \A i \in 1..Len(v) : Len(v[i]) = 2

(* ------------------------------------------------------------------ *)
(* Properties of Spec                                                  *)
(* ------------------------------------------------------------------ *)

\* C1: a save that completes under identifier B leaves the entry of every
\* other identifier A as it was, and get(A) still returns the record that
\* was saved under A.
C1_ProfileIsolation ==
    [][\A i \in SaveSlots : SaveSucceeds(i) =>
          \A A \in DOMAIN origin : A # saves[i].id =>
              /\ entryOf(store', A) = entryOf(store, A)
              /\ getNow(store', A) = origin[A]]_vars

C1_Witness ==
    /\ feedback.msg = "saved"
    /\ feedback.id \in DOMAIN origin
    /\ \E A \in DOMAIN origin : A # feedback.id /\ getNow(store, A) = origin[A]

\* C2: get returns the same record for two spellings of an identifier that
\* differ only in case or surrounding whitespace.
C2_CaseInsensitiveLoad ==
    \A x \in Spellings, y \in Spellings :
        toLowerCase(trim(x)) = toLowerCase(trim(y)) => getNow(store, x) = getNow(store, y)

\* C3: a save that ends in failure, at whichever step, has not touched the
\* data entry of its identifier: neither the step that starts the save nor
\* the step that fails changes it.
C3_SaveAllOrNothing ==
    [][/\ SaveFails => entryOf(store', feedback'.id) = entryOf(store, feedback'.id)
       /\ \A i \in SaveSlots : SaveStarts(i) =>
              entryOf(store', saves'[i].id) = entryOf(store, saves'[i].id)]_vars

C3_Witness ==
    /\ feedback.msg = "saveError"
    /\ feedback.id \in DOMAIN origin
    /\ getNow(store, feedback.id) = origin[feedback.id]

\* C4: a save changes the current-profile pointer only in the step that
\* completes it; the step that starts a save and a step that fails leave
\* the pointer as it was.
C4_PointerOnlyOnSuccess ==
    [][(SaveFails \/ \E i \in SaveSlots : SaveStarts(i)) =>
          currentProfile(store') = currentProfile(store)]_vars

Identifiers ==
    { saveIdentifier(p = "mentors", input.name) : p \in Pages, input \in FormInputs }
        \cup (ApiArgs \ {Null})

\* C11: clear(id) of an identifier with a stored entry makes get(id) return
\* null, and the entry of an identifier stays absent until a save under
\* that identifier completes.
C11_ClearThenLoad ==
    [][\A id \in Identifiers :
          /\ (Clear(id) /\ entryOf(store, id) # Null /\ store' # store) =>
                getNow(store', id) = Null
          /\ (entryOf(store, id) = Null /\ entryOf(store', id) # Null) =>
                \E i \in SaveSlots : SaveSucceeds(i) /\ saves[i].id = id]_vars

C11_Witness ==
    /\ feedback.msg = "saved"
    /\ currentProfile(store) = feedback.id
    /\ \A i \in SaveSlots : saves[i].pc = "idle"
    /\ feedback.id \notin DOMAIN origin
    /\ getNow(store, feedback.id) = Null

\* storage after agrees with storage before on every key outside gone,
\* and has no new key
SameExcept(before, after, gone) ==
    /\ DOMAIN after \subseteq DOMAIN before
    /\ \A k \in DOMAIN before \ gone : k \in DOMAIN after /\ after[k] = before[k]

\* C12: clear() removes the entry the pointer names and the pointer, and
\* nothing else; clear(id) removes the entry of id and nothing else, the
\* pointer staying as it was even when it names id.
C12_ClearAndPointer ==
    [][/\ (Clear(Null) /\ store' # store) =>
             /\ currentProfile(store') = Null
             /\ currentProfile(store) # Null => entryOf(store', currentProfile(store)) = Null
             /\ SameExcept(store, store',
                           {CURRENT_PROFILE_KEY} \cup
                           (IF currentProfile(store) # Null
                            THEN {STORAGE_KEY_PREFIX \o currentProfile(store)} ELSE {}))
       /\ \A id \in Identifiers : (Clear(id) /\ store' # store) =>
             /\ currentProfile(store') = currentProfile(store)
             /\ entryOf(store', id) = Null
             /\ SameExcept(store, store', {STORAGE_KEY_PREFIX \o id})]_vars

C12_Witness ==
    /\ feedback.msg = "saved"
    /\ currentProfile(store) = Null
    /\ \A i \in SaveSlots : saves[i].pc = "idle"
    /\ origin = EmptyStore
    /\ entryOf(store, feedback.id) = Null

\* names that are empty or only whitespace: '', ' ', tab space newline,
\* a no-break space
BlankNames == {<<>>, <<32>>, <<9,32,10>>, <<160>>}

\* C13: a save from the student form with a blank name has the identifier
\* 'student': it sets the pointer to 'student' and, when it completes,
\* writes the entry of 'student'; and get() while the pointer is unset
\* returns null without anything being thrown.
C13_DefaultIdentifier ==
    /\ \A name \in BlankNames : saveIdentifier(FALSE, name) = <<115,116,117,100,101,110,116>>
    /\ [][
       /\ \A i \in SaveSlots :
             /\ (SaveStarts(i) /\ page = "students"
                    /\ Prop(saves'[i].data, K_name) \in BlankNames) =>
                   /\ saves'[i].id = <<115,116,117,100,101,110,116>>
                   /\ currentProfile(store') = <<115,116,117,100,101,110,116>>
             /\ (SaveSucceeds(i) /\ page = "students"
                    /\ Prop(saves[i].data, K_name) \in BlankNames) =>
                   getNow(store', <<115,116,117,100,101,110,116>>) = saves[i].data
       /\ currentProfile(store) = Null =>
             /\ getSync(store, Null, TRUE).t = "null"
             /\ getNow(store, Null) = Null]_vars

C13_Witness ==
    /\ page = "students"
    /\ feedback.msg = "saved"
    /\ feedback.id = <<115,116,117,100,101,110,116>>
    /\ currentProfile(store) = <<115,116,117,100,101,110,116>>
    /\ <<115,116,117,100,101,110,116>> \in DOMAIN origin
    /\ Prop(origin[<<115,116,117,100,101,110,116>>], K_name) \in BlankNames
    /\ getNow(store, Null) = origin[<<115,116,117,100,101,110,116>>]

\* one name in several cases and paddings: 'é"b', 'É"b', 'é"B', 'É"B',
\* ' é"B ', tab 'É"b', 'é"b' newline
NameVariants ==
    { <<233,34,98>>, <<201,34,98>>, <<233,34,66>>, <<201,34,66>>,
      <<32,233,34,66,32>>, <<9,201,34,98>>, <<233,34,98,10>> }

\* the names of data entries
dataKeys(st) ==
    { k \in DOMAIN st : /\ Len(k) >= Len(STORAGE_KEY_PREFIX)
                        /\ SubSeq(k, 1, Len(STORAGE_KEY_PREFIX)) = STORAGE_KEY_PREFIX }

\* C14: names of the student form that differ only in case or surrounding
\* whitespace save under one storage key, so that a completing save
\* replaces the record an earlier spelling saved; and normalizing a
\* normalized identifier changes nothing.
C14_NormalizationOnSave ==
    /\ \A x \in NameVariants :
          storageKeyFor(saveIdentifier(FALSE, x)) = STORAGE_KEY_PREFIX \o <<233,34,98>>
    /\ \A x \in NameVariants \cup BlankNames \cup {MENTOR_ID, DEFAULT_NAME} :
          saveIdentifier(FALSE, saveIdentifier(FALSE, x)) = saveIdentifier(FALSE, x)
    /\ [][\A i \in SaveSlots :
             (SaveSucceeds(i) /\ page = "students"
                /\ Prop(saves[i].data, K_name) \in NameVariants) =>
                   /\ getNow(store', <<233,34,98>>) = saves[i].data
                   /\ dataKeys(store') =
                         dataKeys(store) \cup {STORAGE_KEY_PREFIX \o <<233,34,98>>}]_vars

C14_Witness ==
    /\ feedback.msg = "saved"
    /\ feedback.id \in DOMAIN origin
    /\ feedback.replaced \in NameVariants
    /\ Prop(origin[feedback.id], K_name) \in NameVariants \ {feedback.replaced}
    /\ getNow(store, feedback.id) = origin[feedback.id]

\* identifiers chosen to collide if any can: those of a run, the empty
\* one, the two foreign keys as they are and in lower case, and
\* identifiers that repeat the prefix
KeyProbes ==
    Identifiers \cup
    { <<>>, CURRENT_PROFILE_KEY, THEME_STORAGE_KEY,
      toLowerCase(CURRENT_PROFILE_KEY), toLowerCase(THEME_STORAGE_KEY),
      STORAGE_KEY_PREFIX, STORAGE_KEY_PREFIX \o <<233,34,98>> }

\* C15: distinct identifiers have distinct storage keys, none of them the
\* pointer key or the theme key; in every state each data entry belongs
\* to exactly one identifier and the pointer holds an identifier, never
\* the value of a data entry.
C15_KeyInjectivity ==
    /\ \A x \in KeyProbes, y \in KeyProbes :
          x # y => storageKeyFor(x) # storageKeyFor(y)
    /\ \A x \in KeyProbes :
          storageKeyFor(x) \notin {CURRENT_PROFILE_KEY, THEME_STORAGE_KEY}
    /\ dataKeys(store) \cap {CURRENT_PROFILE_KEY, THEME_STORAGE_KEY} = {}
    /\ \A k \in dataKeys(store) :
          Cardinality({id \in Identifiers : storageKeyFor(id) = k}) = 1
    /\ DOMAIN store \subseteq dataKeys(store) \cup {CURRENT_PROFILE_KEY, THEME_STORAGE_KEY}
    /\ currentProfile(store) # Null => currentProfile(store) \in Identifiers

C15_Witness ==
    /\ Cardinality(dataKeys(store)) = 2
    /\ currentProfile(store) # Null
    /\ THEME_STORAGE_KEY \in DOMAIN store
    /\ \A id \in DOMAIN origin : getNow(store, id) = origin[id]

\* C16: every step of the profile store (save, clear, setCurrentProfile,
\* the confirm-clear handler) leaves every entry that is neither a data
\* entry nor the pointer, the theme preference included, as it was.
C16_NamespaceOwnership ==
    [][\A k \in (DOMAIN store \cup DOMAIN store')
                 \ (dataKeys(store) \cup dataKeys(store') \cup {CURRENT_PROFILE_KEY}) :
          getItem(store', k) = getItem(store, k)]_vars

\* history: the record of the most recent completed save of an identifier
\* since its entry was last cleared, null when there is none
lastSaved(history, profileIdentifier) ==
    IF profileIdentifier \in DOMAIN history THEN history[profileIdentifier] ELSE Null

\* C17: whenever a save or a clear changes the entry of an identifier,
\* get of that identifier returns from then on the whole record of the
\* most recent completed save since the last clear, or null when there is
\* no such save.
C17_LastWriterWins ==
    [][\A id \in Identifiers :
          (\/ entryOf(store', id) # entryOf(store, id)
           \/ lastSaved(origin', id) # lastSaved(origin, id)) =>
              getNow(store', id) = lastSaved(origin', id)]_vars

C17_Witness ==
    /\ feedback.msg = "saved"
    /\ feedback.replaced # Null
    /\ \A i \in SaveSlots : saves[i].pc = "idle"
    /\ Prop(lastSaved(origin, feedback.id), K_savedAt) = toISOString(now - 1)
    /\ getNow(store, feedback.id) = lastSaved(origin, feedback.id)

\* saveFormData ends before its await: the clock has moved and no call waits
SaveEndsEarly == now' # now /\ saves' = saves

\* saveFormData, resumed after its await, runs to its end
SaveEnds(i) ==
    saves[i].pc = "encrypting" /\ saves'[i].pc = "idle" /\ feedback'.msg # "closed"

\* C19: a save that ends before its await (storage or crypto unavailable)
\* shows the failure alert; a save that ends after it shows either the
\* alert or "Information Saved!", about its own profile, and shows
\* "Information Saved!" exactly when get of its identifier now gives the
\* record it was saving, so a save that did not write its entry (encryption
\* rejected, setItem threw) shows the alert and never the success text.
C19_SaveFailuresSurfaced ==
    [][/\ SaveEndsEarly => feedback'.msg = "saveError"
       /\ \A i \in SaveSlots : SaveEnds(i) =>
             /\ feedback'.msg \in {"saved", "saveError"}
             /\ feedback'.id = saves[i].id
             /\ (feedback'.msg = "saved") <=> (getNow(store', saves[i].id) = saves[i].data)]_vars

\* the alert was shown for a save that had written the pointer and whose
\* data entry does not exist
C19_Witness ==
    /\ feedback.msg = "saveError"
    /\ \A i \in SaveSlots : saves[i].pc = "idle"
    /\ currentProfile(store) = feedback.id
    /\ entryOf(store, feedback.id) = Null
    /\ now = 1

\* the page closes under a save that has written the pointer (line 259)
\* and not the data entry (line 266)
Closes ==
    /\ \E i \in SaveSlots : saves[i].pc = "encrypting"
    /\ \A i \in SaveSlots : saves'[i].pc = "idle"
    /\ feedback'.msg = "closed"

\* C18 as the specification states it: when the page closes between the
\* pointer write and the data write of a save, and the pointer names the
\* profile of that save, get of the current profile gives null.
C18_InterruptedSaveNoData ==
    [][Closes /\ currentProfile(store') = feedback'.id =>
          getNow(store', Null) = Null]_vars

\* C18, amended: when the page closes between the pointer write and the
\* data write of a save, and the pointer names the profile of that save,
\* get of the current profile does not throw and gives what the last
\* completed save of that profile left: null when there is none since the
\* last clear, else the whole record of that earlier save.
C18_InterruptedSaveKeepsEarlier ==
    [][Closes /\ currentProfile(store') = feedback'.id =>
          LET r == getSync(store', Null, TRUE)
          IN  /\ r.t # "thrown"
              /\ r.t = "await" => getSettle(getAsync(r.savedData, TRUE)).pc = "resolved"
              /\ getNow(store', Null) = lastSaved(origin', feedback'.id)]_vars

\* a save of a profile that had been saved before was cut off, and get of
\* the current profile gives the earlier record
C18_Witness ==
    /\ feedback.msg = "closed"
    /\ \A i \in SaveSlots : saves[i].pc = "idle"
    /\ currentProfile(store) = feedback.id
    /\ entryOf(store, feedback.id) # Null
    /\ getNow(store, Null) # Null
    /\ getNow(store, Null) = lastSaved(origin, feedback.id)

\* C20 as the specification states it: in every reachable state the
\* current-profile pointer is absent or a trimmed, lower-case identifier.
C20_PointerNormalized ==
    currentProfile(store) # Null =>
        currentProfile(store) = toLowerCase(trim(currentProfile(store)))

\* every key but the pointer has the value, or the absence, it had
OnlyPointerChanged(before, after) ==
    \A k \in (DOMAIN before \cup DOMAIN after) \ {CURRENT_PROFILE_KEY} :
        getItem(after, k) = getItem(before, k)

\* C21: setCurrentProfile(id) with a non-empty id makes getCurrentProfile()
\* return id, changes no other key of the storage and starts no load;
\* setCurrentProfile(null) removes the pointer, so that getCurrentProfile()
\* returns null and get() without an argument returns null, and changes no
\* other key either.
C21_SwitchProfile ==
    [][\A a \in ApiArgs : (SetCurrentProfile(a) /\ store' # store) =>
          /\ OnlyPointerChanged(store, store')
          /\ got' = got
          /\ ~Falsy(a) => currentProfile(store') = a
          /\ Falsy(a) => /\ currentProfile(store') = Null
                         /\ getNow(store', Null) = Null]_vars

\* the pointer names 'É"b', which only setCurrentProfile stores, while
\* the entry a save wrote for 'é"b' is in place
C21_Witness ==
    /\ currentProfile(store) = <<201,34,98>>
    /\ entryOf(store, <<233,34,98>>) # Null
    /\ getNow(store, <<233,34,98>>) = lastSaved(origin, <<233,34,98>>)
    /\ \A i \in SaveSlots : saves[i].pc = "idle"

(* ------------------------------------------------------------------ *)
(* Properties of UiSpec                                                *)
(* ------------------------------------------------------------------ *)

\* C22 as the specification states it: a save from the mentor form is
\* made under 'mentor' whatever name is entered, and no save from the
\* student form writes the entry of the mentor profile.
C22_MentorReserved ==
    [][\A i \in SaveSlots :
          /\ (page = "mentors" /\ SaveStarts(i)) => saves'[i].id = MENTOR_ID
          /\ (page = "students" /\ SaveSucceeds(i)) =>
                entryOf(store', MENTOR_ID) = entryOf(store, MENTOR_ID)]_vars

\* C25 as the specification states it: a save that was waiting in
\* encryptData when the confirm-clear handler cleared its profile does not
\* bring the entry of the profile back.  While the last thing shown is
\* 'Information Cleared!' for a profile and no pointer is set, no save has
\* been started since that clear (a save sets the pointer before anything
\* else), so a save of the profile that waits then was started before it.
C25_ClearNotUndone ==
    [][\A i \in SaveSlots :
          (/\ feedback.msg = "cleared"
           /\ currentProfile(store) = Null
           /\ saves[i].pc = "encrypting"
           /\ saves[i].id = feedback.id) =>
              entryOf(store', feedback.id) = Null]_vars

\* C27 as the specification states it: when no save and no load is in
\* flight and the pointer is set, the profile it names has a data entry.
C27_PointerImpliesEntry ==
    (/\ \A i \in SaveSlots : saves[i].pc = "idle"
     /\ got.pc = "idle"
     /\ currentProfile(store) # Null) =>
        entryOf(store, currentProfile(store)) # Null

\* C28: when the load button is pressed with a name whose identifier has
\* no storage entry, and the storage can be read, the handler shows 'No
\* Data Found!', starts no load and leaves the pointer and every entry as
\* they were; a press of the button moves the pointer only to the entered
\* identifier and only when that identifier has an entry.
C28_LoadButtonUnknown ==
    [][\A value \in LoadNames :
          LET profileIdentifier == loadIdentifier(page = "mentors", trim(value))
          IN  (/\ got.pc = "idle" /\ saves' = saves /\ now' = now /\ page' = page
               /\ trim(value) # <<>>
               /\ LoadClick(value)) =>
                /\ (entryOf(store, profileIdentifier) = Null /\ feedback'.msg # "loadError") =>
                      /\ feedback'.msg = "noData"
                      /\ feedback'.id = profileIdentifier
                      /\ store' = store
                      /\ got' = got
                /\ currentProfile(store') # currentProfile(store) =>
                      /\ currentProfile(store') = profileIdentifier
                      /\ entryOf(store, profileIdentifier) # Null]_vars

\* 'No Data Found!' was shown for a profile without an entry while the
\* pointer names another profile, whose entry is in place
C28_Witness ==
    /\ feedback.msg = "noData"
    /\ entryOf(store, feedback.id) = Null
    /\ currentProfile(store) # Null
    /\ currentProfile(store) # feedback.id
    /\ entryOf(store, currentProfile(store)) # Null
    /\ got.pc = "idle"

\* C30 as the specification states it: the loadFormData of a page load
\* leaves a theme preference of 'light' or 'dark' as it is; the stored
\* themeChoice is written as the preference only over 'auto'.
C30_PageLoadKeepsTheme ==
    [][(got.pc = "pageLoading" /\ got'.pc = "idle"
          /\ getThemePreference(store) # AUTO) =>
          getThemePreference(store') = getThemePreference(store)]_vars

(* ------------------------------------------------------------------ *)
(* Properties of ButtonSpec                                            *)
(* ------------------------------------------------------------------ *)

\* C29 as the specification states it: the load button's handler shows
\* 'Information Loaded!' only when the stored blob of the entered
\* identifier decodes, decrypts and parses to a record.
C29_LoadedOnlyIfUsable ==
    [][(got.pc = "loading" /\ feedback'.msg = "loaded") =>
          getNow(store, got.arg) # Null]_vars

(* ------------------------------------------------------------------ *)
(* Properties of LiveSpec                                              *)
(* ------------------------------------------------------------------ *)

\* savedAt of a record, as the second it was built in
startedAt(data) == CHOOSE t \in 0..(MaxClock + 1) : Prop(data, K_savedAt) = toISOString(t)

\* C26 as the specification states it: when a save completes after a save
\* that was started later than it has completed (two saves in flight
\* together, both succeeding), and no save is left waiting, the pointer
\* names the identifier of the entry written last, and if the two saves
\* have one identifier the stored record is the one of the save started
\* last.
C26_ConcurrentSavesInOrder ==
    [][\A i \in SaveSlots : \A id \in DOMAIN origin :
          (/\ SaveSucceeds(i)
           /\ \A j \in SaveSlots : saves'[j].pc = "idle"
           /\ startedAt(origin[id]) > startedAt(saves[i].data)) =>
              /\ currentProfile(store') = saves[i].id
              /\ id = saves[i].id => getNow(store', id) = origin[id]]_vars

\* C26, amended: the pointer is written when a save is started and left
\* alone when a save completes, so it names the identifier of the save
\* started last; and a save that completes leaves its own record as the
\* stored record of its identifier, so of two saves on one identifier the
\* stored record is the one of the save that completed last, whichever
\* was started first.
C26_ConcurrentSaves ==
    [][\A i \in SaveSlots :
          /\ SaveStarts(i) => currentProfile(store') = saves'[i].id
          /\ SaveEnds(i) => currentProfile(store') = currentProfile(store)
          /\ SaveSucceeds(i) => getNow(store', saves[i].id) = saves[i].data]_vars

\* two saves of one profile were in flight together and the one started
\* first completed last: its record, of second 0, has replaced the record
\* of the save started after it
C26_Witness ==
    /\ \A i \in SaveSlots : saves[i].pc = "idle"
    /\ feedback.msg = "saved"
    /\ feedback.replaced # Null
    /\ currentProfile(store) = feedback.id
    /\ now = MaxClock
    /\ getNow(store, feedback.id) # Null
    /\ startedAt(getNow(store, feedback.id)) = 0

\* C24: when every pending encryptData and decryptData settles in the
\* end, every save that waits in encryptData comes to its end, having
\* shown 'Information Saved!' with the entry of its profile written, or
\* the failure alert; and every get that waits in decryptData resolves,
\* with a record or with null, whatever saves wait beside it.
C24_EveryOperationFinishes ==
    /\ \A i \in SaveSlots :
          (saves[i].pc = "encrypting") ~>
              /\ saves[i].pc = "idle"
              /\ \/ feedback.msg = "saveError"
                 \/ feedback.msg = "saved" /\ entryOf(store, feedback.id) # Null
    /\ (got.pc = "decrypting") ~>
          (got.pc = "resolved" /\ (got.value = Null \/ IsRecord(got.value)))

\* a get that was started while a save waited has resolved with the
\* record of a save, and every save has come to its end
C24_Witness ==
    /\ got.pc = "resolved"
    /\ got.value # Null
    /\ \A i \in SaveSlots : saves[i].pc = "idle"
    /\ feedback.msg \in {"saved", "saveError"}
    /\ now = MaxClock

(* ------------------------------------------------------------------ *)
(* Properties of LoadSpec                                              *)
(* ------------------------------------------------------------------ *)

\* C23: a step of StudentFormStorage.get, up to its await or after it,
\* whether it ends with a record or with null for a value that does not
\* decode, authenticate or parse, leaves every storage entry and the
\* pointer as they were: a corrupted blob stays in place.
C23_LoadReadOnly ==
    [][got' # got => store' = store]_vars

\* get has returned null for a changed entry, and the changed entry is
\* still what the storage holds for the current profile
C23_Witness ==
    /\ got.pc = "resolved"
    /\ got.value = Null
    /\ tamper \in {"ciphertext", "truncated", "replaced"}
    /\ got.savedData # Null
    /\ got.savedData = getItem(store, getCurrentStorageKey(store))
    /\ getNow(store, Null) = Null

\* C5: whatever the entry holds and whatever fails underneath, the promise
\* of get never rejects; it resolves to null or to a parsed record.
C5_LoadNeverThrows ==
    /\ got.pc \in {"idle", "decrypting", "resolved"}
    /\ got.pc = "resolved" => got.value = Null \/ IsRecord(got.value)

C5_Witness ==
    /\ tamper = "replaced"
    /\ got.pc = "resolved"
    /\ got.savedData # Null
    /\ got.value = Null

\* C6: after one bit of the stored blob (nonce, ciphertext or tag) has been
\* flipped, a get that read the entry resolves to null.
C6_TamperDetected ==
    tamper \in {"nonce", "ciphertext", "tag"} /\ got.pc = "resolved" => got.value = Null

C6_Witness ==
    /\ tamper = "ciphertext"
    /\ got.pc = "resolved"
    /\ got.savedData # Null
    /\ got.savedData # encryptData(JSONStringify(origin[feedback.id]),
                                    SubSeq(atob(got.savedData).val, 1, IV_LENGTH), TRUE).val
    /\ got.value = Null

\* C7: when the entry decodes to fewer than 12 bytes, decryptData fails and
\* a get that read the entry resolves to null.
C7_TruncatedBlob ==
    tamper = "truncated" /\ got.pc \notin {"idle", "decrypting"} =>
        /\ got.pc = "resolved"
        /\ got.value = Null
        /\ got.savedData # Null =>
              /\ Len(atob(got.savedData).val) < IV_LENGTH
              /\ ~decryptData(got.savedData, TRUE).ok

C7_Witness ==
    /\ tamper = "truncated"
    /\ got.pc = "resolved"
    /\ got.savedData # Null
    /\ Len(atob(got.savedData).val) \in 1..(IV_LENGTH - 1)
    /\ got.value = Null

(* ------------------------------------------------------------------ *)
(* Properties of CipherSpec                                            *)
(* ------------------------------------------------------------------ *)

\* C8: decryptData of what encryptData returned is the text that was
\* encrypted, whatever the nonce; atob gives back the bytes btoa was given,
\* the nonce followed by ciphertext and tag.
C8_RoundTrip ==
    /\ cipher.pc = "decrypted" => cipher.out = Ok(cipher.data)
    /\ cipher.blob # <<>> =>
          atob(cipher.blob) =
              Ok(cipher.iv \o AesGcmEncrypt(DerivedKey, cipher.iv, TextEncode(cipher.data)))

C8_Witness ==
    /\ cipher.pc = "decrypted"
    /\ \E i \in 1..Len(cipher.data) : cipher.data[i] > 127
    /\ \E i \in 1..Len(cipher.data) : cipher.data[i] = BACKSLASH
    /\ cipher.out = Ok(cipher.data)

\* C9 as the spec states it: two calls of encryptData on the same text
\* return different blobs.
C9_BlobsDiffer == cipher.blob2 # <<>> => cipher.blob # cipher.blob2

\* C9: the first 12 bytes of a blob are the nonce drawn for that call, and
\* two calls on the same text return different blobs exactly when the
\* nonces drawn for them differ.
C9_NonceLeadsBlob ==
    cipher.blob2 # <<>> =>
        /\ SubSeq(atob(cipher.blob).val, 1, IV_LENGTH) = cipher.iv
        /\ SubSeq(atob(cipher.blob2).val, 1, IV_LENGTH) = cipher.iv2
        /\ (cipher.blob = cipher.blob2) <=> (cipher.iv = cipher.iv2)

C9_Witness ==
    /\ cipher.blob2 # <<>>
    /\ cipher.iv # cipher.iv2
    /\ cipher.blob # cipher.blob2

====
